---- MODULE Spec2Model ----
(***************************************************************************)
(* OpenWriter: the paginated preview (src/components/PagedView.tsx).       *)
(*                                                                         *)
(* An HTML string is modelled by the sequence of its top-level nodes: text *)
(* nodes and elements.  An element is a record of the parts of its markup  *)
(* (tag, class, style, text) and of the geometry the layout engine gives   *)
(* it inside the measurement container (border-box height, computed top    *)
(* and bottom margins); a text node carries the height of the lines it     *)
(* lays out to.  Lengths are whole pixels.                                 *)
(***************************************************************************)
EXTENDS Integers, Sequences, FiniteSets, TLC

(***************************************************************************)
(* Bounds of the model.                                                    *)
(***************************************************************************)
\* longest content (in top-level nodes) the editor hands to PagedView in Spec
MaxLen == 2
\* longest content of SpecPaginate
MaxBlocks == 5
\* longest content of SpecUniform
MaxUniform == 23
\* animation frames requested during one behaviour of Spec
MaxRaf == 3
\* longest content of SpecProgress
MaxProgress == 4
\* longest content of SpecClassify
MaxMarkers == 3
\* calls of measureBlock in one behaviour of SpecMeasure
MaxCalls == 3
\* tallest canvas html2canvas returns in SpecPDF (in canvas rows)
MaxCanvasHeight == 70
\* longest completion text (in characters) the provider returns in SpecAI
MaxCompletion == 2
\* calls of callAI in one behaviour of SpecAI
MaxRequests == 2
\* steps of the clock in one behaviour of SpecAutosave
MaxTicks == 5

(***************************************************************************)
(* Page dimensions, PagedView.tsx lines 3-7.                               *)
(***************************************************************************)
PAGE_WIDTH == 816
PAGE_HEIGHT == 1056
PAGE_MARGIN == 96
PAGE_BODY_HEIGHT == PAGE_HEIGHT - (PAGE_MARGIN * 2)

\* measureBlock's fallback height, lines 50 and 57
FALLBACK_HEIGHT == 40

\* null, as a node
None == [kind |-> "null"]

(***************************************************************************)
(* Markup.                                                                 *)
(***************************************************************************)
TextNode(t, lines) == [kind |-> "text", text |-> t, rect |-> lines]

Element(tag, cls, style, text, rect, mt, mb) ==
    [kind |-> "element", tag |-> tag, cls |-> cls, style |-> style,
     text |-> text, rect |-> rect, marginTop |-> mt, marginBottom |-> mb]

\* a computed length: <<n>> is "npx"; <<>> is a value that is no number ("auto")
Px(n) == <<n>>
Auto == <<>>

IsWhitespace(node) == node.kind = "text" /\ node.text = " "

\* String.prototype.includes on the strings that occur in the markup:
\* <<s, pat>> is listed when pat is a substring of s.
Substrings ==
    { <<"page-break", "page-break">>,
      <<"page-break-after:always", "page-break">>,
      <<"ck-page-break", "page-break">>,
      <<"ck-page-break", "ck-page-break">>,
      <<"page-break-before:always", "page-break">>,
      <<"see pagebreak", "pagebreak">>,
      <<"pagebreak", "pagebreak">> }

\* the strings a block's serialized markup is made of
RECURSIVE MarkupParts(_)
MarkupParts(node) ==
    IF node.kind = "text" THEN {node.text}
    ELSE {node.tag, node.cls, node.style}
         \cup UNION {MarkupParts(node.text[i]) : i \in DOMAIN node.text}

Includes(blockHtml, pat) ==
    \E s \in MarkupParts(blockHtml) : <<s, pat>> \in Substrings

\* lines 33-38
isHardPageBreak(blockHtml) ==
    \/ Includes(blockHtml, "page-break")
    \/ Includes(blockHtml, "ck-page-break")
    \/ Includes(blockHtml, "pagebreak")

(***************************************************************************)
(* parseBlocks, lines 18-31.                                               *)
(***************************************************************************)
\* String.prototype.trim: drop leading and trailing whitespace
RECURSIVE TrimStart(_)
TrimStart(html) ==
    IF html # <<>> /\ IsWhitespace(Head(html)) THEN TrimStart(Tail(html))
    ELSE html

RECURSIVE TrimEnd(_)
TrimEnd(html) ==
    IF html # <<>> /\ IsWhitespace(html[Len(html)])
    THEN TrimEnd(SubSeq(html, 1, Len(html) - 1))
    ELSE html

Trim(html) == TrimEnd(TrimStart(html))

\* container.children: the element children, text nodes left out
Children(nodes) == SelectSeq(nodes, LAMBDA n : n.kind = "element")

\* the height of the lines the text nodes lay out to
RECURSIVE TextLines(_)
TextLines(nodes) ==
    IF nodes = <<>> THEN 0
    ELSE (IF Head(nodes).kind = "text" THEN Head(nodes).rect ELSE 0)
         + TextLines(Tail(nodes))

\* `<p>${html}</p>`: a paragraph around the html, as high as its lines
WrapInParagraph(html) ==
    Element("p", "", "", html, TextLines(html), Px(0), Px(0))

parseBlocksAlwaysWrap(html) ==
    IF Children(html) # <<>> THEN Children(html) ELSE <<WrapInParagraph(html)>>

parseBlocks(html) ==
    IF html = <<>> \/ Trim(html) = <<>> THEN <<>>
    ELSE LET blocks == Children(html)
         IN  IF Len(blocks) > 0 THEN blocks
             ELSE IF Trim(html) # <<>> THEN <<WrapInParagraph(html)>> ELSE <<>>

(***************************************************************************)
(* measureBlock, lines 49-68.  The container is the offscreen div; its     *)
(* innerHTML is the sequence of nodes it holds.                            *)
(***************************************************************************)
\* parsing a block's markup gives back the node it was serialized from
ParseFragment(blockHtml) == <<blockHtml>>

\* measureRef.current.innerHTML = blockHtml
SetInnerHTMLAppend(innerHTML, blockHtml) == innerHTML \o ParseFragment(blockHtml)

SetInnerHTML(innerHTML, blockHtml) == ParseFragment(blockHtml)

FirstElementChild(innerHTML) ==
    IF Children(innerHTML) = <<>> THEN None ELSE Head(Children(innerHTML))

\* parseFloat(style.marginTop) || 0: a margin that is not a number counts 0
ParseFloatOr0(length) == IF length = Auto THEN 0 ELSE length[1]

\* measureBlock adding to the container and leaving it as it is
measureBlockLeaky(blockHtml, innerHTML, current) ==
    LET inner == SetInnerHTMLAppend(innerHTML, blockHtml)
        element == FirstElementChild(inner)
    IN  [height |-> element.rect + ParseFloatOr0(element.marginTop)
                                 + ParseFloatOr0(element.marginBottom),
         innerHTML |-> inner]

\* measureBlock without lines 56 and 65: the fragment stays in the container
measureBlockNoClear(blockHtml, innerHTML, current) ==
    IF ~current THEN [height |-> FALLBACK_HEIGHT, innerHTML |-> innerHTML]
    ELSE LET inner == SetInnerHTML(innerHTML, blockHtml)
             element == FirstElementChild(inner)
         IN  IF element.kind = "null"
             THEN [height |-> FALLBACK_HEIGHT, innerHTML |-> inner]
             ELSE [height |-> element.rect + ParseFloatOr0(element.marginTop)
                                           + ParseFloatOr0(element.marginBottom),
                   innerHTML |-> inner]

\* measureBlock without lines 55-58: no element measures as nothing
measureBlockNoFallback(blockHtml, innerHTML, current) ==
    IF ~current THEN [height |-> FALLBACK_HEIGHT, innerHTML |-> innerHTML]
    ELSE LET element == FirstElementChild(SetInnerHTML(innerHTML, blockHtml))
         IN  IF element.kind = "null"
             THEN [height |-> 0, innerHTML |-> <<>>]
             ELSE [height |-> element.rect + ParseFloatOr0(element.marginTop)
                                           + ParseFloatOr0(element.marginBottom),
                   innerHTML |-> <<>>]

\* measureBlock(blockHtml) run with the container holding innerHTML:
\* the height returned and the innerHTML left behind
measureBlock(blockHtml, innerHTML, current) ==
    IF ~current THEN [height |-> FALLBACK_HEIGHT, innerHTML |-> innerHTML]
    ELSE LET element == FirstElementChild(SetInnerHTML(innerHTML, blockHtml))
         IN  IF element.kind = "null"
             THEN [height |-> FALLBACK_HEIGHT, innerHTML |-> <<>>]
             ELSE [height |-> element.rect + ParseFloatOr0(element.marginTop)
                                           + ParseFloatOr0(element.marginBottom),
                   innerHTML |-> <<>>]

(***************************************************************************)
(* paginate, lines 71-109, on its locals st = [result, currentPage,        *)
(* currentHeight].                                                         *)
(***************************************************************************)
EmptyPage == [blocks |-> <<>>]

\* lines 72-74: the early return for no blocks
NoPages == <<>>

EmptyDocumentPages == <<EmptyPage>>

\* lines 76-78
FreshLocals == [result |-> <<>>, currentPage |-> EmptyPage, currentHeight |-> 0]

\* lines 82-87: a hard page break closes the current page
HardBreakIgnored(st, block) == st

HardBreakCollapsed(st, block) ==
    IF Len(st.currentPage.blocks) = 0 THEN st
    ELSE [result |-> Append(st.result, st.currentPage),
          currentPage |-> EmptyPage, currentHeight |-> 0]

HardBreakKept(st, block) ==
    [result |-> Append(st.result, st.currentPage),
     currentPage |-> [blocks |-> <<block>>], currentHeight |-> 0]

HardBreakStep(st, block) ==
    [result |-> Append(st.result, st.currentPage),
     currentPage |-> EmptyPage, currentHeight |-> 0]

\* line 92: the soft page break condition
NeedsSoftBreakAtCapacity(st, blockHeight) ==
    st.currentHeight + blockHeight >= PAGE_BODY_HEIGHT
        /\ Len(st.currentPage.blocks) > 0

NeedsSoftBreakLate(st, blockHeight) ==
    st.currentHeight > PAGE_BODY_HEIGHT /\ Len(st.currentPage.blocks) > 0

NeedsSoftBreakUnguarded(st, blockHeight) ==
    st.currentHeight + blockHeight > PAGE_BODY_HEIGHT

NeedsSoftBreak(st, blockHeight) ==
    st.currentHeight + blockHeight > PAGE_BODY_HEIGHT
        /\ Len(st.currentPage.blocks) > 0

\* lines 92-96: overflow to the next page
SoftBreakStep(st, blockHeight) ==
    IF NeedsSoftBreak(st, blockHeight)
    THEN [result |-> Append(st.result, st.currentPage),
          currentPage |-> EmptyPage, currentHeight |-> 0]
    ELSE st

\* lines 98-100: add the block to the current page
AddBlockInFront(st, block, blockHeight) ==
    [st EXCEPT !.currentPage = [blocks |-> <<block>> \o st.currentPage.blocks],
               !.currentHeight = st.currentHeight + blockHeight]

AddBlock(st, block, blockHeight) ==
    [st EXCEPT !.currentPage = [blocks |-> Append(st.currentPage.blocks, block)],
               !.currentHeight = st.currentHeight + blockHeight]

\* lines 80-101: the loop body for one block, the container holding innerHTML
\* (first, with the measurement hoisted above the hard-break test)
LoopBodyMeasureAll(st, innerHTML, block, current) ==
    LET m == measureBlock(block, innerHTML, current)
    IN  IF isHardPageBreak(block)
        THEN [st |-> HardBreakStep(st, block), innerHTML |-> m.innerHTML,
              measured |-> 1]
        ELSE [st |-> AddBlock(SoftBreakStep(st, m.height), block, m.height),
              innerHTML |-> m.innerHTML, measured |-> 1]

LoopBody(st, innerHTML, block, current) ==
    IF isHardPageBreak(block)
    THEN [st |-> HardBreakStep(st, block), innerHTML |-> innerHTML,
          measured |-> 0]
    ELSE LET m == measureBlock(block, innerHTML, current)
         IN  [st |-> AddBlock(SoftBreakStep(st, m.height), block, m.height),
              innerHTML |-> m.innerHTML, measured |-> 1]

\* lines 103-108: add the final page and return
FinalPagesAlways(st) == Append(st.result, st.currentPage)

FinalPages(st) ==
    IF Len(st.currentPage.blocks) > 0 \/ Len(st.result) = 0
    THEN Append(st.result, st.currentPage)
    ELSE st.result

\* line 166: the footer of the page at pageIndex (0-based) of pageList
Footer(pageList, pageIndex) == <<"Page", pageIndex + 1, "of", Len(pageList)>>

(***************************************************************************)
(* Contents.                                                               *)
(***************************************************************************)
Word == <<TextNode("hello", 17)>>

Space == TextNode(" ", 0)
Text == TextNode("hello", 17)
\* a paragraph filling half a page body: 400 high with 16 of margin each side
HalfPage == Element("p", "", "", Word, 400, Px(16), Px(16))
\* a table taller than a page body
Tall == Element("table", "", "", Word, 900, Px(0), Px(0))
\* the editor's page break
PageBreak == Element("div", "page-break", "page-break-after:always", <<>>, 0, Px(0), Px(0))
\* a third of a page body, with margins that are not numbers
Third == Element("p", "", "", Word, 288, Auto, Auto)
\* an empty paragraph pulled up by a negative margin
Negative == Element("p", "", "", <<>>, 0, Px(-32), Px(0))

\* an empty paragraph without margins: it measures 0
Empty == Element("p", "", "", <<>>, 0, Px(0), Px(0))
\* <hr style="page-break-before:always">: a marker by its style alone
StyleBreak == Element("hr", "", "page-break-before:always", <<>>, 2, Px(8), Px(8))
\* <p>see pagebreak</p>: a paragraph whose text mentions the word
Mention == Element("p", "", "", <<TextNode("see pagebreak", 17)>>, 17, Px(16), Px(16))

Nodes == {Space, Text, Tall, PageBreak}

BlockNodes == {HalfPage, Tall, PageBreak, Third, Negative}

UniformHeights == {40, 300, 432, 863}

SeqsUpTo(S, n) == UNION {[1..k -> S] : k \in 0..n}

\* the fragments handed to measureBlock in SpecMeasure: whitespace and plain
\* text (no element), and elements of positive, zero and negative extent
Fragments == {Space, Text, HalfPage, Third, Negative}

\* the blocks of SpecProgress: taller than a page, of height 0, a hard break
ProgressNodes == {Tall, Empty, PageBreak, HalfPage}

ProgressDocs == SeqsUpTo(ProgressNodes, MaxProgress)

\* the blocks of SpecClassify: content, markers, and content naming a marker
MarkerNodes == {HalfPage, PageBreak, StyleBreak, Mention}

MarkerDocs == SeqsUpTo(MarkerNodes, MaxMarkers)

\* the contents the editor produces in Spec
Docs == SeqsUpTo(Nodes, MaxLen)

\* the contents of SpecPaginate
BlockDocs == SeqsUpTo(BlockNodes, MaxBlocks)

\* the contents of SpecUniform: k paragraphs of one height
UniformDocs ==
    {[i \in 1..k |-> Element("p", "", "", Word, h, Px(0), Px(0))] :
        k \in 0..MaxUniform, h \in UniformHeights}

(***************************************************************************)
(* The component.                                                          *)
(***************************************************************************)
VARIABLES
    content,        \* the content prop
    pages,          \* the pages state, line 46
    mounted,        \* the component is mounted; measureRef.current is then set
    rafQueue,       \* the animation frame callbacks requested and not cancelled
    rafId,          \* the rafId of the effect's cleanup, line 114
    nextRafId,      \* the next handle requestAnimationFrame returns
    pc,             \* "idle", or "loop" inside the frame callback
    cbContent,      \* the content the running callback closed over, line 115
    blocks,         \* its blocks, line 115
    idx,            \* the position of the for loop of line 80 in blocks
    result,         \* line 76
    currentPage,    \* line 77
    currentHeight,  \* line 78
    measureHTML,    \* innerHTML of the offscreen measurement container
    passes,         \* the frame callbacks that ran so far
    measureCalls,   \* the calls of measureBlock made by the running pass
    measured,       \* the calls of measureBlock made on their own, in order:
                    \* the fragment, whether the container was there, the result
    canvas,         \* exportPDF: the canvas html2canvas returned
    heightLeft,     \* exportPDF: its local heightLeft
    position,       \* exportPDF: its local position
    pdf,            \* exportPDF: the jsPDF document, the vertical offsets of
                    \* the images drawn on each page
    pdfPc,          \* exportPDF: where the export is
    apiKey,         \* ai-client: the apiKey of the stored configuration
    aiCalls,        \* ai-client: the calls of callAI made so far
    aiCallKey,      \* callAI: config.apiKey as the running or last call read it
    aiOutcome,      \* callAI: what the call's fetch came to, if it issued one
    aiResult,       \* callAI: the value the call's promise resolved to
    aiPc,           \* callAI: where the call is
    aiIsLoading,    \* useAI: isLoading
    aiError,        \* useAI: error
    aiResponse,     \* useAI: response
    aiInFlight,     \* useAI: the calls of performAction awaiting callAI
    aiNextRequest,  \* useAI: the number of the next call of performAction
    asContent,      \* useAutosave: its option content
    asPath,         \* useAutosave: its option currentFilePath
    asDirty,        \* useAutosave: its option isDirty
    lastSaveRef,    \* useAutosave: lastSaveRef.current
    hasCheckedRecovery, \* useAutosave: hasCheckedRecovery.current
    storage,        \* localStorage: the item AUTOSAVE_KEY
    timer,          \* useAutosave: the timeout the autosave effect armed
    now,            \* Date.now(), in milliseconds
    effectPending,  \* useAutosave: the recovery effect is to run
    recoveryLog,    \* the runs of the recovery check: what each read from
                    \* storage, when, the user's answer, its calls of onRecover
    asSince,        \* since when the document is dirty with a content that
                    \* no snapshot written since holds
    asCleared,      \* clearAutosave was called and the content has not
                    \* changed since
    appContent,     \* App: its state content
    currentFilePath, \* App: its state currentFilePath
    isDirty,        \* App: its state isDirty
    editorModel,    \* the CKEditor instance: the document it holds
    lastContent,    \* Editor: lastContent.current
    fileLoading,    \* useFileOps: its state isLoading
    fileError,      \* useFileOps: its state error
    fileOp,         \* useFileOps: the operation in flight and where it waits
    bodyContainers, \* document.body: the rendering containers of exportPDF
                    \* that are its children
    lastSettled,    \* the file operation that settled last: how it ended
                    \* and the callbacks Toolbar called for it
    onFile,         \* the content last written to or loaded from a file, or
                    \* the empty new document
    fresh           \* a New or an Open has completed and the user has not
                    \* edited since

pagedVars == <<content, pages, mounted, rafQueue, rafId, nextRafId, pc,
               cbContent, blocks, idx, result, currentPage, currentHeight,
               passes, measureCalls>>

\* the state outside the PagedView's own
pdfVars == <<canvas, heightLeft, position, pdf, pdfPc>>

aiVars == <<apiKey, aiCalls, aiCallKey, aiOutcome, aiResult, aiPc>>

useAIVars == <<aiIsLoading, aiError, aiResponse, aiInFlight, aiNextRequest>>

autosaveVars == <<asContent, asPath, asDirty, lastSaveRef, hasCheckedRecovery,
                  storage, timer, now, effectPending, recoveryLog, asSince,
                  asCleared>>

fileVars == <<appContent, currentFilePath, isDirty, editorModel, lastContent,
              fileLoading, fileError, fileOp, bodyContainers, lastSettled,
              onFile, fresh>>

\* the state of the hooks and handlers around the document
docVars == <<autosaveVars, fileVars>>

restVars == <<useAIVars, docVars>>

otherVars == <<measured, pdfVars, aiVars, restVars>>

vars == <<pagedVars, measureHTML, otherVars>>

\* window.requestAnimationFrame and cancelAnimationFrame on the pending callbacks
requestNoFrame(queue, id, c) == queue

requestAnimationFrame(queue, id, c) == queue \cup {[id |-> id, content |-> c]}

cancelNothing(queue, id) == queue

cancelAnimationFrame(queue, id) == {cb \in queue : cb.id # id}

Locals == [result |-> result, currentPage |-> currentPage,
           currentHeight |-> currentHeight]

SetLocals(st) ==
    /\ result' = st.result
    /\ currentPage' = st.currentPage
    /\ currentHeight' = st.currentHeight

\* the component mounted with content c: line 46 and the effect of lines 112-121
InitWith(c) ==
    /\ content = c
    /\ pages = <<EmptyPage>>
    /\ mounted = TRUE
    /\ rafQueue = {[id |-> 1, content |-> c]}
    /\ rafId = 1
    /\ nextRafId = 2
    /\ pc = "idle"
    /\ cbContent = <<>>
    /\ blocks = <<>>
    /\ idx = 1
    /\ result = <<>>
    /\ currentPage = EmptyPage
    /\ currentHeight = 0
    /\ measureHTML = <<>>
    /\ passes = 0
    /\ measureCalls = 0

\* no call of measureBlock outside a pass
MeasureIdle == measured = <<>>

\* no export going on
PdfIdle ==
    /\ canvas = None
    /\ heightLeft = 0
    /\ position = 0
    /\ pdf = <<>>
    /\ pdfPc = "none"

\* DEFAULT_CONFIG (apiKey ''), and no call of callAI made
AiIdle ==
    /\ apiKey = ""
    /\ aiCalls = 0
    /\ aiCallKey = ""
    /\ aiOutcome = None
    /\ aiResult = None
    /\ aiPc = "idle"

\* useAI.ts lines 19-21: the initial state of the hook
UseAIIdle ==
    /\ aiIsLoading = FALSE
    /\ aiError = None
    /\ aiResponse = None
    /\ aiInFlight = {}
    /\ aiNextRequest = 1

\* useAutosave.ts lines 3-5 and 34
AUTOSAVE_INTERVAL == 30000
MAX_AGE == 24 * 60 * 60 * 1000

\* the step of the clock
TimeStep == AUTOSAVE_INTERVAL \div 3

\* Date.now() when the hook mounts
Start == MAX_AGE + AUTOSAVE_INTERVAL

\* useAutosave.ts lines 21-22: the hook at its first render, localStorage
\* holding saved under AUTOSAVE_KEY
AutosaveMounts(saved) ==
    /\ asContent = <<>>
    /\ asPath = None
    /\ asDirty = FALSE
    /\ lastSaveRef = <<>>
    /\ hasCheckedRecovery = FALSE
    /\ storage = saved
    /\ timer = None
    /\ now = Start
    /\ effectPending = TRUE
    /\ recoveryLog = <<>>
    /\ asSince = <<>>
    /\ asCleared = FALSE

\* part_000 lines 175-177, part_002 line 66, useFileOps.ts lines 20-21: App,
\* Editor and useFileOps at their first render, the editor created empty
FileIdle ==
    /\ appContent = <<>>
    /\ currentFilePath = None
    /\ isDirty = FALSE
    /\ editorModel = <<>>
    /\ lastContent = <<>>
    /\ fileLoading = FALSE
    /\ fileError = None
    /\ fileOp = None
    /\ bodyContainers = 0
    /\ lastSettled = None
    /\ onFile = <<>>
    /\ fresh = "no"

RestIdle == UseAIIdle /\ AutosaveMounts(None) /\ FileIdle

OthersIdle == MeasureIdle /\ PdfIdle /\ AiIdle /\ RestIdle

\* App starts with content "" (App useState)
Init == InitWith(<<>>) /\ OthersIdle

InitPaginate == (\E c \in BlockDocs : InitWith(c)) /\ OthersIdle

InitUniform == (\E c \in UniformDocs : InitWith(c)) /\ OthersIdle

InitMeasure == InitWith(<<>>) /\ OthersIdle

InitProgress == (\E c \in ProgressDocs : InitWith(c)) /\ OthersIdle

InitClassify == (\E c \in MarkerDocs : InitWith(c)) /\ OthersIdle

\* lines 112-121: the content prop changes; the effect's cleanup cancels the
\* frame requested before and the effect requests a new one
ContentChange ==
    /\ mounted /\ pc = "idle"
    /\ nextRafId <= MaxRaf
    /\ \E c \in Docs :
        /\ c # content
        /\ content' = c
        /\ rafQueue' = requestAnimationFrame(
                           cancelAnimationFrame(rafQueue, rafId), nextRafId, c)
    /\ rafId' = nextRafId
    /\ nextRafId' = nextRafId + 1
    /\ UNCHANGED <<pages, mounted, pc, cbContent, blocks, idx, result,
                   currentPage, currentHeight, measureHTML, passes,
                   measureCalls, otherVars>>

\* line 120: the cleanup at unmount
Unmount ==
    /\ mounted /\ pc = "idle"
    /\ mounted' = FALSE
    /\ rafQueue' = cancelAnimationFrame(rafQueue, rafId)
    /\ UNCHANGED <<content, pages, rafId, nextRafId, pc, cbContent, blocks, idx,
                   result, currentPage, currentHeight, measureHTML, passes,
                   measureCalls, otherVars>>

\* lines 114-118 and 71-78: a requested frame fires; parseBlocks, then paginate
\* up to its loop, or through its early return and setPages
Frame ==
    /\ pc = "idle"
    /\ \E cb \in rafQueue :
        /\ rafQueue' = rafQueue \ {cb}
        /\ cbContent' = cb.content
        /\ blocks' = parseBlocks(cb.content)
    /\ idx' = 1
    /\ passes' = passes + 1
    /\ measureCalls' = 0
    /\ IF Len(blocks') = 0
       THEN /\ pages' = EmptyDocumentPages
            /\ pc' = "idle"
            /\ UNCHANGED <<result, currentPage, currentHeight>>
       ELSE /\ SetLocals(FreshLocals)
            /\ pc' = "loop"
            /\ UNCHANGED pages
    /\ UNCHANGED <<content, mounted, rafId, nextRafId, measureHTML, otherVars>>

\* lines 80-101: one iteration of the loop
PaginateStep ==
    /\ pc = "loop" /\ idx <= Len(blocks)
    /\ LET body == LoopBody(Locals, measureHTML, blocks[idx], mounted)
       IN  /\ SetLocals(body.st)
           /\ measureHTML' = body.innerHTML
           /\ measureCalls' = measureCalls + body.measured
    /\ idx' = idx + 1
    /\ UNCHANGED <<content, pages, mounted, rafQueue, rafId, nextRafId, pc,
                   cbContent, blocks, passes, otherVars>>

\* lines 103-108 and 117: the loop is over; the final page, return, setPages
PaginateReturn ==
    /\ pc = "loop" /\ idx > Len(blocks)
    /\ pages' = FinalPages(Locals)
    /\ pc' = "idle"
    /\ UNCHANGED <<content, mounted, rafQueue, rafId, nextRafId, cbContent,
                   blocks, idx, result, currentPage, currentHeight, measureHTML,
                   passes, measureCalls, otherVars>>

Next == ContentChange \/ Unmount \/ Frame \/ PaginateStep \/ PaginateReturn

Spec == Init /\ [][Next]_vars

\* the browser fires every requested frame that is not cancelled, and a
\* callback that started runs to its end
FairSpec ==
    Spec /\ WF_vars(Frame) /\ WF_vars(PaginateStep) /\ WF_vars(PaginateReturn)

\* paginate as a function of its input: one mounted view, one pass
NextPaginate == Frame \/ PaginateStep \/ PaginateReturn

SpecPaginate == InitPaginate /\ [][NextPaginate]_vars

SpecUniform == InitUniform /\ [][NextPaginate]_vars

\* measureBlock called on its own, lines 49-68, on the container as the
\* calls before left it
Measure ==
    /\ Len(measured) < MaxCalls
    /\ \E blockHtml \in Fragments, current \in BOOLEAN :
           LET m == measureBlock(blockHtml, measureHTML, current)
           IN  /\ measureHTML' = m.innerHTML
               /\ measured' = Append(measured, [blockHtml |-> blockHtml,
                                                current |-> current,
                                                height |-> m.height])
    /\ UNCHANGED <<pagedVars, pdfVars, aiVars, restVars>>

NextMeasure == Measure

SpecMeasure == InitMeasure /\ [][NextMeasure]_vars

\* one pagination pass that started runs to its end: the callback is one
\* synchronous run of parseBlocks, paginate and setPages
SpecProgress ==
    /\ InitProgress /\ [][NextPaginate]_vars
    /\ WF_vars(Frame) /\ WF_vars(PaginateStep) /\ WF_vars(PaginateReturn)

(***************************************************************************)
(* exportPDF, useFileOps.ts lines 246-278: the captured canvas is sliced    *)
(* into Letter pages.  Lengths of the PDF are in half inches, so that the  *)
(* page width 8.5in is the whole number 17 and the page height 11in is 22; *)
(* the canvas has one row and one column of pixels per half inch.          *)
(***************************************************************************)
imgWidth == 17
pageHeight == 22
\* container.style.padding = '0.75in': the capture is 1.5in high at least
MinCanvasHeight == 3

Canvases == {[width |-> imgWidth, height |-> h] :
                 h \in MinCanvasHeight..MaxCanvasHeight}

\* line 262
imgHeight == (canvas.height * imgWidth) \div canvas.width

\* new jsPDF(): a document of one page without images
NewPdf == << <<>> >>

addPage(doc) == Append(doc, <<>>)

\* pdf.addImage(imgData, 'PNG', 0, y, imgWidth, imgHeight): on the last page
addImage(doc, y) == [doc EXCEPT ![Len(doc)] = Append(@, y)]

\* line 272: the loop condition
MorePagesInclusive(left) == left >= 0

MorePages(left) == left > 0

\* lines 246-251: html2canvas has returned a canvas
InitPDF ==
    /\ InitWith(<<>>) /\ MeasureIdle /\ AiIdle /\ RestIdle
    /\ canvas \in Canvases
    /\ heightLeft = 0
    /\ position = 0
    /\ pdf = <<>>
    /\ pdfPc = "captured"

\* lines 254-269: the document is created and the image drawn on page one
SliceFirst ==
    /\ pdfPc = "captured"
    /\ position' = 0
    /\ pdf' = addImage(NewPdf, 0)
    /\ heightLeft' = imgHeight - pageHeight
    /\ pdfPc' = "loop"
    /\ UNCHANGED <<pagedVars, measureHTML, measured, aiVars, restVars, canvas>>

\* lines 272-277: one iteration of the loop
SliceStep ==
    /\ pdfPc = "loop" /\ MorePages(heightLeft)
    /\ position' = heightLeft - imgHeight
    /\ pdf' = addImage(addPage(pdf), position')
    /\ heightLeft' = heightLeft - pageHeight
    /\ UNCHANGED <<pagedVars, measureHTML, measured, aiVars, restVars, canvas,
                   pdfPc>>

\* lines 272 and 280: the loop is over, the document is put out
SliceDone ==
    /\ pdfPc = "loop" /\ ~MorePages(heightLeft)
    /\ pdfPc' = "done"
    /\ UNCHANGED <<pagedVars, measureHTML, measured, aiVars, restVars, canvas,
                   heightLeft, position, pdf>>

NextPDF == SliceFirst \/ SliceStep \/ SliceDone

\* the slicing is synchronous code: once started it runs to its end
SpecPDF ==
    /\ InitPDF /\ [][NextPDF]_vars
    /\ WF_vars(SliceFirst) /\ WF_vars(SliceStep) /\ WF_vars(SliceDone)

(***************************************************************************)
(* callAI, ai-client lines 87-156.  A JavaScript string is a record of its *)
(* characters, undefined a record of its own; a template literal is the    *)
(* sequence of its parts.                                                  *)
(***************************************************************************)
Undefined == [kind |-> "undefined"]

Str(chars) == [kind |-> "string", chars |-> chars]

\* a value that is no string and is truthy, such as a number
NotAString == [kind |-> "number"]

\* the completion texts: all strings of blanks and letters
Completions == {Str(c) : c \in SeqsUpTo({" ", "x"}, MaxCompletion)}

\* String.prototype.trim on the characters
RECURSIVE trimStart(_)
trimStart(chars) ==
    IF chars # <<>> /\ Head(chars) = " " THEN trimStart(Tail(chars)) ELSE chars

RECURSIVE trimEnd(_)
trimEnd(chars) ==
    IF chars # <<>> /\ chars[Len(chars)] = " "
    THEN trimEnd(SubSeq(chars, 1, Len(chars) - 1))
    ELSE chars

trim(str) == Str(trimEnd(trimStart(str.chars)))

\* !content
Falsy(value) ==
    value.kind = "undefined" \/ (value.kind = "string" /\ value.chars = <<>>)

\* the bodies a response can carry: no JSON, the JSON null, the empty object,
\* an error object with its message, a completion with its content
Bodies ==
    {[kind |-> "invalid"], [kind |-> "null"], [kind |-> "object"]}
    \cup {[kind |-> "error", message |-> m] : m \in {"", "Invalid API Key"}}
    \cup {[kind |-> "completion", content |-> c] :
               c \in Completions \cup {Undefined, NotAString}}

\* what the fetch of line 100 comes to: it rejects with an Error of some
\* message, or resolves to a response
Outcomes ==
    {[kind |-> "throw", message |-> m] :
         m \in {"Failed to fetch", "network timeout", "Load failed"}}
    \cup {[kind |-> "response", ok |-> FALSE, status |-> st, body |-> b] :
               st \in {"401", "500"}, b \in Bodies}
    \cup {[kind |-> "response", ok |-> TRUE, status |-> "200", body |-> b] :
               b \in Bodies}

\* String.prototype.includes on the messages of the errors
MessageIncludes ==
    { <<"Failed to fetch", "fetch">>,
      <<"network timeout", "network">> }

includes(message, word) == <<message, word>> \in MessageIncludes

Failure(parts) == [success |-> FALSE, content |-> Undefined, error |-> parts]

Success(text) == [success |-> TRUE, content |-> text, error |-> <<>>]

\* lines 90-95
NoKeyResult ==
    Failure(<<"API key not configured. Click the settings icon to add your Groq API key.">>)

\* lines 140-155: the catch clause, for an Error of this message
Catch(message) ==
    IF includes(message, "fetch") \/ includes(message, "network")
    THEN Failure(<<"Network error. Are you offline?">>)
    ELSE Failure(<<"AI request failed: ", message>>)

\* lines 117-124: the response is not OK
NotOk(response) ==
    LET errorData == IF response.body.kind = "invalid" THEN [kind |-> "object"]
                     ELSE response.body
    IN  IF errorData.kind = "null"
        THEN Catch("Cannot read properties of null (reading 'error')")
        ELSE IF errorData.kind = "error" /\ errorData.message # ""
             THEN Failure(<<errorData.message>>)
             ELSE Failure(<<"API error: ", response.status>>)

\* lines 126-139: the response is OK
Ok(response) ==
    IF response.body.kind = "invalid"
    THEN Catch("Unexpected token < in JSON at position 0")
    ELSE IF response.body.kind = "null"
    THEN Catch("Cannot read properties of null (reading 'choices')")
    ELSE LET text == IF response.body.kind = "completion"
                     THEN response.body.content ELSE Undefined
         IN  IF Falsy(text) THEN Failure(<<"Empty response from AI">>)
             ELSE IF text.kind # "string"
             THEN Catch("content.trim is not a function")
             ELSE Success(trim(text))

\* lines 97-155: what callAI resolves to once its fetch has come to outcome
Settle(outcome) ==
    IF outcome.kind = "throw" THEN Catch(outcome.message)
    ELSE IF ~outcome.ok THEN NotOk(outcome)
    ELSE Ok(outcome)

InitAI == InitWith(<<>>) /\ MeasureIdle /\ PdfIdle /\ AiIdle /\ RestIdle

\* saveAIConfig({apiKey}), lines 43-51
SaveAIConfig ==
    /\ \E key \in {"", "gsk_key"} : key # apiKey /\ apiKey' = key
    /\ UNCHANGED <<pagedVars, measureHTML, measured, pdfVars, restVars,
                   aiCalls, aiCallKey, aiOutcome, aiResult, aiPc>>

\* lines 87-115: callAI is called; it reads the configuration and returns at
\* once without a key, or issues its fetch
CallAI ==
    /\ aiPc # "fetching"
    /\ aiCalls < MaxRequests
    /\ aiCalls' = aiCalls + 1
    /\ aiCallKey' = apiKey
    /\ aiOutcome' = None
    /\ IF apiKey = ""
       THEN aiResult' = NoKeyResult /\ aiPc' = "settled"
       ELSE aiResult' = None /\ aiPc' = "fetching"
    /\ UNCHANGED <<pagedVars, measureHTML, measured, pdfVars, restVars, apiKey>>

\* lines 100-155: the fetch comes to its outcome and callAI returns
FetchSettles ==
    /\ aiPc = "fetching"
    /\ \E outcome \in Outcomes :
           /\ aiOutcome' = outcome
           /\ aiResult' = Settle(outcome)
    /\ aiPc' = "settled"
    /\ UNCHANGED <<pagedVars, measureHTML, measured, pdfVars, restVars,
                   apiKey, aiCalls, aiCallKey>>

NextAI == SaveAIConfig \/ CallAI \/ FetchSettles

SpecAI == InitAI /\ [][NextAI]_vars

(***************************************************************************)
(* useAI, useAI.ts lines 18-80.  rewrite, summarize and continueWriting    *)
(* all run performAction; the hook's state is isLoading, error, response.  *)
(***************************************************************************)
\* an error message as the hook keeps it
Message(parts) == [kind |-> "string", parts |-> parts]

\* result.error || 'Unknown error occurred'
ErrorOrUnknown(r) ==
    IF \E i \in DOMAIN r.error : r.error[i] # "" THEN r.error
    ELSE <<"Unknown error occurred">>

\* what callAI resolves to for a call that read the key: line 90, or the fetch
CallAIResults(key) ==
    IF key = "" THEN {NoKeyResult} ELSE {Settle(o) : o \in Outcomes}

InitUseAI == InitWith(<<>>) /\ MeasureIdle /\ PdfIdle /\ AiIdle /\ RestIdle

\* lines 25-31: performAction up to its await; callAI has read the key
PerformAction ==
    /\ aiNextRequest <= MaxRequests
    /\ aiIsLoading' = TRUE
    /\ aiError' = None
    /\ aiResponse' = None
    /\ aiInFlight' = aiInFlight \cup {[id |-> aiNextRequest, key |-> apiKey]}
    /\ aiNextRequest' = aiNextRequest + 1
    /\ UNCHANGED <<pagedVars, measureHTML, measured, pdfVars, aiVars, docVars>>

\* lines 31-42: callAI has resolved; the result is stored, isLoading reset
PerformActionResumes ==
    /\ \E request \in aiInFlight :
           /\ aiInFlight' = aiInFlight \ {request}
           /\ \E r \in CallAIResults(request.key) :
                  IF r.success /\ ~Falsy(r.content)
                  THEN aiResponse' = r.content /\ UNCHANGED aiError
                  ELSE aiError' = Message(ErrorOrUnknown(r))
                       /\ UNCHANGED aiResponse
    /\ aiIsLoading' = FALSE
    /\ UNCHANGED <<pagedVars, measureHTML, measured, pdfVars, aiVars, docVars,
                   aiNextRequest>>

\* line 62
clearResponse ==
    /\ aiResponse # None
    /\ aiResponse' = None
    /\ UNCHANGED <<pagedVars, measureHTML, measured, pdfVars, aiVars, docVars,
                   aiIsLoading, aiError, aiInFlight, aiNextRequest>>

\* line 63
clearAIError ==
    /\ aiError # None
    /\ aiError' = None
    /\ UNCHANGED <<pagedVars, measureHTML, measured, pdfVars, aiVars, docVars,
                   aiIsLoading, aiResponse, aiInFlight, aiNextRequest>>

NextUseAI ==
    \/ SaveAIConfig
    \/ PerformAction
    \/ PerformActionResumes
    \/ clearResponse
    \/ clearAIError

SpecUseAI == InitUseAI /\ [][NextUseAI]_vars

(***************************************************************************)
(* useAutosave, useAutosave.ts.  The hook's options change as its parent   *)
(* re-renders; time is Date.now() in milliseconds, advancing in steps of a *)
(* third of the autosave interval; a timeout runs when it is due.          *)
(***************************************************************************)
\* the contents the document goes through
Drafts == {<<>>, <<Text>>, <<Text, Text>>}

FilePath == [kind |-> "path", name |-> "document.html"]

\* JSON.stringify of an AutosaveData, lines 62-67 and 81-86
Snapshot(c, t, path) ==
    [kind |-> "snapshot", content |-> c, timestamp |-> t, path |-> path]

\* what localStorage can hold when the hook mounts: nothing, text that is no
\* JSON, or a snapshot an earlier session wrote, recent or a day old or
\* older, with or without content
StoredAtMount ==
    {None, [kind |-> "unparsable"]}
    \cup {Snapshot(c, Start - age, path) :
               c \in {<<>>, <<Text>>},
               age \in {TimeStep, MAX_AGE - TimeStep, MAX_AGE, MAX_AGE + TimeStep},
               path \in {None, FilePath}}

\* line 26: the guard of the recovery check
NeverChecked(flag) == FALSE

AlreadyChecked(flag) == flag

\* line 36: the snapshot is offered for recovery
Offered(data, t) == t - data.timestamp < MAX_AGE /\ data.content # <<>>

\* lines 56-75: the autosave effect runs for these options; the timeout it
\* arms, with the content and path its callback closes over
Armed(c, path, dirty, lastSave, t) ==
    IF ~dirty \/ c = lastSave THEN None
    ELSE [kind |-> "timer", due |-> t + AUTOSAVE_INTERVAL, content |-> c,
          path |-> path]

\* the document is dirty with a content the last snapshot does not hold:
\* since when, given that this step wrote a snapshot or did not
Since(c, dirty, lastSave, wrote) ==
    IF ~(dirty /\ c # lastSave) THEN <<>>
    ELSE IF asSince = <<>> \/ wrote THEN <<now>>
    ELSE asSince

InitAutosave ==
    /\ InitWith(<<>>) /\ MeasureIdle /\ PdfIdle /\ AiIdle /\ UseAIIdle
    /\ FileIdle
    /\ \E saved \in StoredAtMount : AutosaveMounts(saved)

\* lines 25-53: the recovery effect runs, at mount or for a new onRecover
RecoveryEffect ==
    /\ effectPending
    /\ effectPending' = FALSE
    /\ IF AlreadyChecked(hasCheckedRecovery)
       THEN UNCHANGED <<hasCheckedRecovery, storage, recoveryLog>>
       ELSE /\ hasCheckedRecovery' = TRUE
            /\ IF storage.kind \in {"null", "unparsable"}
               THEN /\ recoveryLog' = Append(recoveryLog,
                           [saved |-> storage, at |-> now,
                            answer |-> "not asked", calls |-> <<>>])
                    /\ UNCHANGED storage
               ELSE /\ storage' = None
                    /\ IF Offered(storage, now)
                       THEN \E recover \in BOOLEAN :
                               recoveryLog' = Append(recoveryLog,
                                   [saved |-> storage, at |-> now,
                                    answer |-> IF recover THEN "yes" ELSE "no",
                                    calls |-> IF recover
                                              THEN <<[content |-> storage.content,
                                                      path |-> storage.path]>>
                                              ELSE <<>>])
                       ELSE recoveryLog' = Append(recoveryLog,
                                [saved |-> storage, at |-> now,
                                 answer |-> "not asked", calls |-> <<>>])
    /\ UNCHANGED <<pagedVars, measureHTML, measured, pdfVars, aiVars, useAIVars,
                   fileVars,
                   asContent, asPath, asDirty, lastSaveRef, timer, now, asSince,
                   asCleared>>

\* the parent re-renders with a new onRecover: the recovery effect is to run
OnRecoverChanges ==
    /\ ~effectPending
    /\ effectPending' = TRUE
    /\ UNCHANGED <<pagedVars, measureHTML, measured, pdfVars, aiVars, useAIVars,
                   fileVars,
                   asContent, asPath, asDirty, lastSaveRef, hasCheckedRecovery,
                   storage, timer, now, recoveryLog, asSince, asCleared>>

\* the user edits: the parent passes the new content and isDirty true, and
\* the autosave effect is cleaned up and run again (lines 56-75)
Edit ==
    /\ ~effectPending
    /\ \E c \in Drafts :
           /\ c # asContent
           /\ asContent' = c
           /\ timer' = Armed(c, asPath, TRUE, lastSaveRef, now)
           /\ asSince' = Since(c, TRUE, lastSaveRef, FALSE)
    /\ asDirty' = TRUE
    /\ asCleared' = FALSE
    /\ UNCHANGED <<pagedVars, measureHTML, measured, pdfVars, aiVars, useAIVars,
                   fileVars,
                   asPath, lastSaveRef, hasCheckedRecovery, storage, now,
                   effectPending, recoveryLog>>

\* the parent marks the document saved: isDirty false, the path possibly
\* new; the autosave effect is cleaned up and run again
MarkSaved ==
    /\ ~effectPending
    /\ asDirty
    /\ asDirty' = FALSE
    /\ \E path \in {asPath, FilePath} :
           /\ asPath' = path
           /\ timer' = Armed(asContent, path, FALSE, lastSaveRef, now)
    /\ asSince' = Since(asContent, FALSE, lastSaveRef, FALSE)
    /\ UNCHANGED <<pagedVars, measureHTML, measured, pdfVars, aiVars, useAIVars,
                   fileVars,
                   asContent, lastSaveRef, hasCheckedRecovery, storage, now,
                   effectPending, recoveryLog, asCleared>>

\* lines 60-72: the timeout runs
TimerFires ==
    /\ timer # None
    /\ now >= timer.due
    /\ storage' = Snapshot(timer.content, now, timer.path)
    /\ lastSaveRef' = timer.content
    /\ timer' = None
    /\ asSince' = Since(asContent, asDirty, timer.content, TRUE)
    /\ UNCHANGED <<pagedVars, measureHTML, measured, pdfVars, aiVars, useAIVars,
                   fileVars,
                   asContent, asPath, asDirty, hasCheckedRecovery, now,
                   effectPending, recoveryLog, asCleared>>

\* lines 79-90
saveNow ==
    /\ ~effectPending
    /\ storage' = Snapshot(asContent, now, asPath)
    /\ lastSaveRef' = asContent
    /\ asSince' = Since(asContent, asDirty, asContent, TRUE)
    /\ asCleared' = FALSE
    /\ UNCHANGED <<pagedVars, measureHTML, measured, pdfVars, aiVars, useAIVars,
                   fileVars,
                   asContent, asPath, asDirty, hasCheckedRecovery, timer, now,
                   effectPending, recoveryLog>>

\* lines 93-97
clearAutosave ==
    /\ ~effectPending
    /\ storage' = None
    /\ lastSaveRef' = asContent
    /\ asSince' = Since(asContent, asDirty, asContent, FALSE)
    /\ asCleared' = TRUE
    /\ UNCHANGED <<pagedVars, measureHTML, measured, pdfVars, aiVars, useAIVars,
                   fileVars,
                   asContent, asPath, asDirty, hasCheckedRecovery, timer, now,
                   effectPending, recoveryLog>>

\* time passes, unless a timeout is due
Tick ==
    /\ ~effectPending
    /\ now < Start + MaxTicks * TimeStep
    /\ IF timer = None THEN TRUE ELSE now < timer.due
    /\ now' = now + TimeStep
    /\ UNCHANGED <<pagedVars, measureHTML, measured, pdfVars, aiVars, useAIVars,
                   fileVars,
                   asContent, asPath, asDirty, lastSaveRef, hasCheckedRecovery,
                   storage, timer, effectPending, recoveryLog, asSince,
                   asCleared>>

NextAutosave ==
    \/ RecoveryEffect
    \/ OnRecoverChanges
    \/ Edit
    \/ MarkSaved
    \/ TimerFires
    \/ saveNow
    \/ clearAutosave
    \/ Tick

SpecAutosave == InitAutosave /\ [][NextAutosave]_vars

\* one pagination pass over a content of markers and of text naming them
SpecClassify == InitClassify /\ [][NextPaginate]_vars

(***************************************************************************)
(* Properties of a pagination pass.  Between two frame callbacks (pc =     *)
(* "idle") blocks holds the input of the last pass and pages its output.   *)
(***************************************************************************)
PassDone == pc = "idle"

\* the blocks of a page list, in page order
RECURSIVE Flatten(_)
Flatten(pageList) ==
    IF pageList = <<>> THEN <<>>
    ELSE Head(pageList).blocks \o Flatten(Tail(pageList))

\* the blocks of the input that are no hard breaks, in input order
NonBreaks(bs) == SelectSeq(bs, LAMBDA b : ~isHardPageBreak(b))

HasHardBreak(bs) == \E i \in DOMAIN bs : isHardPageBreak(bs[i])

\* the height the measurer reports for a block
Height(block) == measureBlock(block, <<>>, TRUE).height

RECURSIVE SumHeights(_)
SumHeights(bs) ==
    IF bs = <<>> THEN 0 ELSE Height(Head(bs)) + SumHeights(Tail(bs))

\* the index of the page holding the n-th block of the pages, 0 if there is none
PageOfNth(pageList, n) ==
    LET upTo(p) == Len(Flatten(SubSeq(pageList, 1, p)))
        holds(p) == upTo(p - 1) < n /\ n <= upTo(p)
    IN  IF n > 0 /\ \E p \in DOMAIN pageList : holds(p)
        THEN CHOOSE p \in DOMAIN pageList : holds(p)
        ELSE 0

\* the index of the page holding the input block at position i (no hard break)
PageOfBlock(i) == PageOfNth(pages, Len(NonBreaks(SubSeq(blocks, 1, i))))

\* C1: paginate loses, duplicates and reorders nothing: the blocks of the
\* output pages, concatenated in page order, are exactly the input's blocks that
\* are no hard breaks, in input order.
C1_NothingLost == PassDone => Flatten(pages) = NonBreaks(blocks)

C1_Witness ==
    /\ PassDone /\ passes > 0
    /\ HasHardBreak(blocks)
    /\ Len(pages) >= 3
    /\ Len(NonBreaks(blocks)) >= 3
    /\ \E p \in DOMAIN pages : Len(pages[p].blocks) >= 2
    /\ Flatten(pages) = NonBreaks(blocks)

\* C2: the heights of the blocks of every output page sum to at most
\* PAGE_BODY_HEIGHT (864), unless the page holds exactly one block and that
\* block is taller than 864.
C2_PageCapacity ==
    PassDone =>
        \A p \in DOMAIN pages :
            \/ SumHeights(pages[p].blocks) <= PAGE_BODY_HEIGHT
            \/ /\ Len(pages[p].blocks) = 1
               /\ Height(pages[p].blocks[1]) > PAGE_BODY_HEIGHT

C2_Witness ==
    /\ PassDone /\ passes > 0
    /\ \E p \in DOMAIN pages :
        /\ Len(pages[p].blocks) = 1
        /\ Height(pages[p].blocks[1]) > PAGE_BODY_HEIGHT
    /\ \E p \in DOMAIN pages :
        /\ Len(pages[p].blocks) >= 2
        /\ SumHeights(pages[p].blocks) = PAGE_BODY_HEIGHT
    /\ \E p \in DOMAIN pages :
        /\ p < Len(pages)
        /\ Len(pages[p].blocks) >= 2
        /\ SumHeights(pages[p].blocks) < PAGE_BODY_HEIGHT
        /\ SumHeights(pages[p].blocks) + Height(pages[p + 1].blocks[1])
               > PAGE_BODY_HEIGHT

\* the input of the last pass ends with a hard break
TrailingHardBreak == blocks # <<>> /\ isHardPageBreak(blocks[Len(blocks)])

\* C3 as claimed: when the input's last block is a hard break, the output ends
\* with the empty page that hard break opened, after the pages the loop closed
\* ([p1, HARD_BREAK] gives [p1] and []).
C3_TrailingEmptyPage ==
    PassDone /\ TrailingHardBreak =>
        /\ pages = Append(result, EmptyPage)
        /\ Len(pages[Len(pages)].blocks) = 0

\* C3, amended: a trailing hard break adds no page of its own.  When the
\* input's last block is a hard break, the output is exactly the pages closed
\* during the loop, its last page being the one that hard break closed; that
\* page is empty only when the hard break is the first block or follows another
\* hard break ([p1, HARD_BREAK] gives the one page [p1]).
C3_NoTrailingPage ==
    PassDone /\ TrailingHardBreak =>
        /\ pages = result
        /\ Len(pages) >= 1
        /\ Len(pages[Len(pages)].blocks) = 0
              <=> (Len(blocks) = 1 \/ isHardPageBreak(blocks[Len(blocks) - 1]))

C3_Witness ==
    /\ PassDone /\ TrailingHardBreak
    /\ Len(blocks) = 2 /\ ~isHardPageBreak(blocks[1])
    /\ pages = <<[blocks |-> <<blocks[1]>>]>>

\* C4: two blocks that are no hard breaks, with a hard break between them in
\* the input, lie on pages of strictly increasing index.
C4_HardBreakSeparates ==
    PassDone =>
        \A i, k \in DOMAIN blocks :
            /\ i < k
            /\ ~isHardPageBreak(blocks[i])
            /\ ~isHardPageBreak(blocks[k])
            /\ \E j \in (i + 1)..(k - 1) : isHardPageBreak(blocks[j])
            => /\ PageOfBlock(i) > 0
               /\ PageOfBlock(i) < PageOfBlock(k)

\* two short blocks that would share a page, kept apart by a hard break
C4_Witness ==
    /\ PassDone
    /\ \E i \in DOMAIN blocks :
        /\ i + 2 \in DOMAIN blocks
        /\ ~isHardPageBreak(blocks[i])
        /\ isHardPageBreak(blocks[i + 1])
        /\ ~isHardPageBreak(blocks[i + 2])
        /\ Height(blocks[i]) + Height(blocks[i + 2]) <= PAGE_BODY_HEIGHT
        /\ PageOfBlock(i + 2) = PageOfBlock(i) + 1

\* the blocks strictly between positions i and j are all hard breaks
OnlyBreaksBetween(i, j) ==
    \A m \in (i + 1)..(j - 1) : isHardPageBreak(blocks[m])

\* C7: hard breaks are not collapsed.  k >= 2 consecutive hard breaks between
\* two content blocks B1 and B2 leave exactly k-1 empty pages between the page
\* that ends with B1 and the page that starts with B2; k leading hard breaks
\* leave k empty pages before the first content block.
C7_NoCollapsing ==
    PassDone =>
        /\ \A i, j \in DOMAIN blocks :
              /\ j - i - 1 >= 2
              /\ ~isHardPageBreak(blocks[i])
              /\ ~isHardPageBreak(blocks[j])
              /\ OnlyBreaksBetween(i, j)
              => LET p1 == PageOfBlock(i)
                     p2 == PageOfBlock(j)
                 IN  /\ p1 > 0
                     /\ p2 = p1 + (j - i - 1)
                     /\ \A p \in (p1 + 1)..(p2 - 1) : pages[p].blocks = <<>>
                     /\ pages[p1].blocks[Len(pages[p1].blocks)] = blocks[i]
                     /\ pages[p2].blocks[1] = blocks[j]
        /\ \A j \in DOMAIN blocks :
              /\ j >= 2
              /\ ~isHardPageBreak(blocks[j])
              /\ OnlyBreaksBetween(0, j)
              => /\ PageOfBlock(j) = j
                 /\ \A p \in 1..(j - 1) : pages[p].blocks = <<>>
                 /\ pages[j].blocks[1] = blocks[j]

C7_Witness ==
    /\ PassDone
    /\ Len(blocks) = 5
    /\ isHardPageBreak(blocks[1])
    /\ ~isHardPageBreak(blocks[2])
    /\ isHardPageBreak(blocks[3])
    /\ isHardPageBreak(blocks[4])
    /\ ~isHardPageBreak(blocks[5])
    /\ pages = << EmptyPage, [blocks |-> <<blocks[2]>>], EmptyPage,
                  [blocks |-> <<blocks[5]>>] >>

\* C10: no block that isHardPageBreak classifies as a hard break is among the
\* blocks of an output page, nor of the pages under construction.
C10_BreaksConsumed ==
    /\ \A p \in DOMAIN pages : ~HasHardBreak(pages[p].blocks)
    /\ \A p \in DOMAIN result : ~HasHardBreak(result[p].blocks)
    /\ ~HasHardBreak(currentPage.blocks)

C10_Witness ==
    /\ PassDone
    /\ HasHardBreak(blocks)
    /\ Len(NonBreaks(blocks)) >= 2
    /\ Len(Flatten(pages)) >= 2
    /\ \A p \in DOMAIN pages : ~HasHardBreak(pages[p].blocks)

\* content that is empty or holds whitespace only
Blank(html) == \A i \in DOMAIN html : html[i] = Space

\* lines 142-169: the footers the view renders, one per page
Footers == [p \in DOMAIN pages |-> Footer(pages, p - 1)]

\* C5: for content that is empty or only whitespace parseBlocks returns no
\* block, and a pass over it leaves exactly one page, with no block, whose
\* footer reads "Page 1 of 1".
C5_BlankContent ==
    /\ \A html \in Docs : Blank(html) => parseBlocks(html) = <<>>
    /\ PassDone /\ Blank(cbContent) =>
          /\ blocks = <<>>
          /\ pages = <<[blocks |-> <<>>]>>
          /\ Footers = << <<"Page", 1, "of", 1>> >>

\* a pass over whitespace that replaced the pages of earlier content
C5_Witness ==
    /\ PassDone /\ passes >= 2
    /\ cbContent # <<>> /\ Blank(cbContent)
    /\ pages = <<[blocks |-> <<>>]>>

\* C6: the displayed page list always has at least one page, before the first
\* frame and after every pass, also for inputs made of hard breaks only.
C6_AtLeastOnePage ==
    /\ Len(pages) >= 1
    /\ pc = "loop" /\ idx > Len(blocks) => Len(FinalPages(Locals)) >= 1

C6_Witness ==
    /\ PassDone /\ passes > 0
    /\ blocks # <<>>
    /\ \A i \in DOMAIN blocks : isHardPageBreak(blocks[i])
    /\ Len(pages) = Len(blocks)

\* paginate applied to bs in a view where nothing ran before: the loop body
\* over bs from fresh locals and an empty measurement container
RECURSIVE FreshLoop(_, _, _)
FreshLoop(bs, st, innerHTML) ==
    IF bs = <<>> THEN st
    ELSE LET body == LoopBody(st, innerHTML, Head(bs), TRUE)
         IN  FreshLoop(Tail(bs), body.st, body.innerHTML)

FreshPass(bs) ==
    IF Len(bs) = 0 THEN EmptyDocumentPages
    ELSE FinalPages(FreshLoop(bs, FreshLocals, <<>>))

\* C9: pagination is deterministic and leaves no state behind.  Whatever
\* passes ran before over whatever content, a pass over a block sequence yields
\* the page list a first pass over that sequence yields, so two passes over the
\* same sequence yield identical lists.
C9_Deterministic == PassDone => pages = FreshPass(blocks)

\* a third pass, over content that breaks into several pages
C9_Witness ==
    /\ PassDone /\ passes >= 3
    /\ Len(pages) >= 2
    /\ Len(Flatten(pages)) >= 2

\* the blocks are content blocks of one measured height h
Uniform(bs, h) ==
    \A i \in DOMAIN bs : ~isHardPageBreak(bs[i]) /\ Height(bs[i]) = h

\* C8: when all blocks measure one height h with 0 < h < 864, every output
\* page but the last holds exactly floor(864 / h) blocks; 21 for h = 40.
C8_BlocksPerPage ==
    PassDone =>
        \A h \in 1..(PAGE_BODY_HEIGHT - 1) :
            blocks # <<>> /\ Height(blocks[1]) = h /\ Uniform(blocks, h) =>
                \A p \in 1..(Len(pages) - 1) :
                    Len(pages[p].blocks) = PAGE_BODY_HEIGHT \div h

C8_Witness ==
    /\ PassDone
    /\ Uniform(blocks, 40)
    /\ Len(blocks) > 21
    /\ Len(pages) = 2
    /\ Len(pages[1].blocks) = 21

(***************************************************************************)
(* Classification of blocks.                                               *)
(***************************************************************************)
\* a page-break marker: an element carrying the reserved class or an explicit
\* page-break style property
IsPageBreakMarker(block) ==
    /\ block.kind = "element"
    /\ \/ block.cls \in {"page-break", "ck-page-break", "pagebreak"}
       \/ block.style \in {"page-break-after:always", "page-break-before:always"}

OnSomePage(block, pageList) ==
    \E p \in DOMAIN pageList :
        \E j \in DOMAIN pageList[p].blocks : pageList[p].blocks[j] = block

\* C11: a block is classified a hard break exactly when it is a page-break
\* marker, and every block that is no marker (a paragraph whose text contains
\* the word "pagebreak" too) is on some page once the pass is done.
C11_MarkersOnly ==
    \A i \in DOMAIN blocks :
        /\ isHardPageBreak(blocks[i]) <=> IsPageBreakMarker(blocks[i])
        /\ (passes > 0 /\ PassDone /\ ~IsPageBreakMarker(blocks[i]))
               => OnSomePage(blocks[i], pages)

(***************************************************************************)
(* The measurer.                                                           *)
(***************************************************************************)
NoElement(blockHtml) == Children(ParseFragment(blockHtml)) = <<>>

\* C12: measureBlock returns a non-negative height for every block, whatever
\* its rendered height and its computed margins.
C12_NonNegative ==
    \A i \in DOMAIN measured : measured[i].height >= 0

\* C13: the measurement container is empty after every call of measureBlock,
\* on the no-element path and on the measured path, and what a call returns
\* is what it returns on an empty container, whatever was measured before.
C13_ContainerCleared ==
    /\ measureHTML = <<>>
    /\ \A i \in DOMAIN measured :
           measured[i].height =
               measureBlock(measured[i].blockHtml, <<>>, measured[i].current).height

\* witness: a call on the no-element path and then a call on the measured
\* path, both with the container there
C13_Witness ==
    /\ Len(measured) = 2
    /\ measured[1].current /\ NoElement(measured[1].blockHtml)
    /\ measured[2].current /\ ~NoElement(measured[2].blockHtml)
    /\ measureHTML = <<>>

\* C14: with no container, or with a fragment that gives no element, the
\* measurer returns the fallback height 40, never 0.
C14_Fallback ==
    \A i \in DOMAIN measured :
        (~measured[i].current \/ NoElement(measured[i].blockHtml))
            => measured[i].height = FALLBACK_HEIGHT /\ measured[i].height # 0

\* witness: a whitespace fragment measured with the container there, and a
\* paragraph measured without it, both give 40
C14_Witness ==
    /\ Len(measured) = 2
    /\ measured[1].current /\ measured[1].blockHtml = Space
    /\ ~measured[2].current /\ measured[2].blockHtml = HalfPage
    /\ measured[1].height = 40 /\ measured[2].height = 40

(***************************************************************************)
(* Scheduling of the pagination passes.                                    *)
(***************************************************************************)
\* C15: at most one animation-frame callback is pending, it is the one the
\* latest effect scheduled, and none is pending after unmount; a pass is
\* started only by that callback while the view is mounted and leaves no
\* callback pending, so the changes between two frames give one pass.
C15_OnePending ==
    /\ [](/\ Cardinality(rafQueue) <= 1
          /\ \A cb \in rafQueue : cb.id = rafId /\ cb.content = content
          /\ ~mounted => rafQueue = {})
    /\ [][passes' # passes =>
              /\ mounted
              /\ rafQueue = {[id |-> rafId, content |-> content]}
              /\ rafQueue' = {}]_vars

\* witness: three frames were requested (at mount and by two content
\* changes) and one pass ran
C15_Witness ==
    /\ mounted /\ PassDone
    /\ rafId = 3 /\ rafQueue = {}
    /\ passes = 1

\* C16: once the content has stopped changing, a view that stays mounted
\* ends up showing the pagination of the latest content with no pass
\* pending or running, and every pass is computed from the content that is
\* current when its frame fires.
C16_Repaginates ==
    /\ <>[](mounted => /\ PassDone
                       /\ rafQueue = {}
                       /\ pages = FreshPass(parseBlocks(content)))
    /\ [][passes' # passes => cbContent' = content]_vars

\* witness: after a content change the second pass has shown the pages of
\* the new content
C16_Witness ==
    /\ mounted /\ PassDone /\ rafQueue = {}
    /\ passes = 2
    /\ parseBlocks(content) # <<>>
    /\ pages = FreshPass(parseBlocks(content))
    /\ pages # <<EmptyPage>>

(***************************************************************************)
(* Termination of paginate.                                                *)
(***************************************************************************)
\* C17: paginate terminates and returns a page list; each step of its loop
\* handles the next block in document order, calling the measurer once if
\* the block is no hard break and not at all if it is one, so a finished
\* pass has visited every block once and measured every non-break once.
C17_Terminates ==
    /\ <>(passes = 1 /\ PassDone)
    /\ []((passes = 1 /\ PassDone) =>
              /\ Len(pages) >= 1
              /\ measureCalls = Len(NonBreaks(blocks))
              /\ blocks # <<>> => idx = Len(blocks) + 1)
    /\ [][(pc = "loop" /\ pc' = "loop") =>
              /\ idx' = idx + 1
              /\ measureCalls' = measureCalls
                     + (IF isHardPageBreak(blocks[idx]) THEN 0 ELSE 1)]_vars

\* witness: a finished pass over a block of height 0, a block taller than a
\* page, a hard break and another block of height 0
C17_Witness ==
    /\ passes = 1 /\ PassDone
    /\ blocks = <<Empty, Tall, PageBreak, Empty>>
    /\ measureCalls = 3
    /\ Len(pages) = 3

(***************************************************************************)
(* Empty pages.                                                            *)
(***************************************************************************)
\* the position in bs of its n-th block that is no hard break, 0 for n = 0
PosOfNth(bs, n) ==
    IF n = 0 THEN 0
    ELSE CHOOSE i \in DOMAIN bs :
             ~isHardPageBreak(bs[i]) /\ Len(NonBreaks(SubSeq(bs, 1, i))) = n

\* page p of the output ends at a hard break of the input: the input block
\* after the last block placed before the end of page p is a hard break
ClosedByHardBreak(p) ==
    LET after == PosOfNth(blocks, Len(Flatten(SubSeq(pages, 1, p)))) + 1
    IN  after \in DOMAIN blocks /\ isHardPageBreak(blocks[after])

\* C18: a soft break never makes an empty page: an empty page of the output
\* is the single page of an output without blocks or a page a hard break
\* closed; an input with blocks and without hard breaks has no empty page;
\* and two blocks around one hard break give two pages of one block each.
C18_NoEmptySoftPage ==
    (passes = 1 /\ PassDone) =>
        /\ \A p \in DOMAIN pages :
               pages[p].blocks = <<>> =>
                   \/ Len(pages) = 1 /\ Flatten(pages) = <<>>
                   \/ ClosedByHardBreak(p)
        /\ (blocks # <<>> /\ ~HasHardBreak(blocks)) =>
               \A p \in DOMAIN pages : pages[p].blocks # <<>>
        /\ ( /\ Len(blocks) = 3
             /\ ~isHardPageBreak(blocks[1])
             /\ isHardPageBreak(blocks[2])
             /\ ~isHardPageBreak(blocks[3]) ) =>
               pages = <<[blocks |-> <<blocks[1]>>], [blocks |-> <<blocks[3]>>]>>

\* witness: two blocks taller than a page around a hard break, on two pages
C18_Witness ==
    /\ passes = 1 /\ PassDone
    /\ blocks = <<Tall, PageBreak, Tall>>
    /\ pages = <<[blocks |-> <<Tall>>], [blocks |-> <<Tall>>]>>

(***************************************************************************)
(* The pages of the exported PDF.                                          *)
(***************************************************************************)
CeilDiv(a, b) == (a + b - 1) \div b

Max(a, b) == IF a >= b THEN a ELSE b

\* C19: for an image of scaled height H and the page height P the export
\* ends, with max(1, ceil(H / P)) pages, and page k (from 1) holds the one
\* image drawn at the vertical offset -(k-1)*P.
C19_Slices ==
    /\ <>(pdfPc = "done")
    /\ [](pdfPc = "done" =>
              Len(pdf) = Max(1, CeilDiv(imgHeight, pageHeight)))
    /\ [](\A k \in DOMAIN pdf : pdf[k] = <<-((k - 1) * pageHeight)>>)

\* witness: an image one row higher than two pages, exported on three pages
C19_Witness ==
    /\ pdfPc = "done"
    /\ imgHeight = 2 * pageHeight + 1
    /\ pdf = << <<0>>, <<-pageHeight>>, <<-(2 * pageHeight)>> >>

(***************************************************************************)
(* The results of callAI.                                                  *)
(***************************************************************************)
\* the message of a result has a character
NonEmptyError(r) == \E i \in DOMAIN r.error : r.error[i] # ""

\* the completion has no text: it is missing, or is blank
EmptyCompletion(outcome) ==
    /\ outcome.kind = "response" /\ outcome.ok
    /\ outcome.body.kind \in {"object", "completion"}
    /\ \/ outcome.body.kind = "object"
       \/ outcome.body.content.kind = "undefined"
       \/ /\ outcome.body.content.kind = "string"
          /\ trim(outcome.body.content).chars = <<>>

\* C20: a settled call of callAI has resolved to a result; without an API
\* key it is a failure and no request was issued; a network failure, a
\* response that is not OK and an empty completion give a failure with a
\* non-empty message; and a success carries content that is not empty.
C20_FailuresAsValues ==
    aiPc = "settled" =>
        /\ aiResult # None
        /\ aiCallKey = "" =>
               ~aiResult.success /\ aiOutcome = None
        /\ ( /\ aiOutcome # None
             /\ \/ aiOutcome.kind = "throw"
                \/ ~aiOutcome.ok
                \/ EmptyCompletion(aiOutcome) ) =>
               ~aiResult.success /\ NonEmptyError(aiResult)
        /\ aiResult.success =>
               aiResult.content.kind = "string" /\ aiResult.content.chars # <<>>

(***************************************************************************)
(* Greedy placement.                                                       *)
(***************************************************************************)
\* C22: a step of the loop on a block that is no hard break closes the
\* current page exactly when that page has a block and its height plus the
\* block's height exceeds the capacity; so a page a soft break closed,
\* together with the first block of the next page, exceeds the capacity, and
\* three blocks of which two fill the page exactly give pages [1,2] and [3].
C22_Greedy ==
    /\ [][(pc = "loop" /\ pc' = "loop" /\ ~isHardPageBreak(blocks[idx])) =>
              /\ (Len(result') = Len(result) + 1) <=>
                     /\ Len(currentPage.blocks) > 0
                     /\ currentHeight + Height(blocks[idx]) > PAGE_BODY_HEIGHT
              /\ Len(result') \in {Len(result), Len(result) + 1}]_vars
    /\ []((passes = 1 /\ PassDone) =>
              \A p \in DOMAIN pages :
                  (p < Len(pages) /\ ~ClosedByHardBreak(p)) =>
                      SumHeights(pages[p].blocks)
                          + Height(pages[p + 1].blocks[1]) > PAGE_BODY_HEIGHT)

\* witness: three paragraphs of half the capacity each, two of them on page
\* one (their sum is the capacity) and the third on page two
C22_Witness ==
    /\ passes = 1 /\ PassDone
    /\ blocks = <<HalfPage, HalfPage, HalfPage>>
    /\ SumHeights(<<HalfPage, HalfPage>>) = PAGE_BODY_HEIGHT
    /\ pages = <<[blocks |-> <<HalfPage, HalfPage>>], [blocks |-> <<HalfPage>>]>>

(***************************************************************************)
(* The state of useAI.                                                     *)
(***************************************************************************)
\* C26: error and response are never both set, whatever calls of rewrite,
\* summarize and continueWriting overlap.
C26_ErrorXorResponse == ~(aiError # None /\ aiResponse # None)

\* C27: isLoading is true exactly while a request is in flight; when one of
\* two overlapping requests completes, isLoading stays true for the other.
C27_LoadingWhileInFlight == aiIsLoading <=> aiInFlight # {}

(***************************************************************************)
(* Autosave.                                                               *)
(***************************************************************************)
\* C23: while the document is dirty with a content the last snapshot does
\* not hold, a snapshot is written within AUTOSAVE_INTERVAL of the document
\* getting into that state or of the last snapshot, however often the
\* content changes.
C23_AutosavesPeriodically ==
    asSince # <<>> => now - asSince[1] <= AUTOSAVE_INTERVAL

\* C29: after clearAutosave, and until the content changes, storage holds
\* no snapshot.
C29_ClearedStaysCleared == asCleared => storage = None

\* C30: the recovery check runs at most once for a hook instance, however
\* often its effect runs; it calls onRecover at most once, and only with a
\* snapshot that was stored, parsed, is younger than 24 hours, has content
\* and was confirmed by the user; a snapshot it read is removed from storage,
\* whatever its age and the answer; text that does not parse gives no call.
C30_RecoveryOnce ==
    /\ [](/\ Len(recoveryLog) <= 1
          /\ \A i \in DOMAIN recoveryLog :
                 LET check == recoveryLog[i]
                 IN  /\ Len(check.calls) <= 1
                     /\ check.calls # <<>> =>
                            /\ check.saved.kind = "snapshot"
                            /\ check.at - check.saved.timestamp < MAX_AGE
                            /\ check.saved.content # <<>>
                            /\ check.answer = "yes"
                            /\ check.calls[1] =
                                   [content |-> check.saved.content,
                                    path |-> check.saved.path]
                     /\ check.saved.kind # "snapshot" => check.calls = <<>>)
    /\ [][(Len(recoveryLog') > Len(recoveryLog) /\ storage.kind = "snapshot")
              => storage' = None]_vars

\* witness: the check ran once and recovered a snapshot; later the effect ran
\* again with a newer snapshot in storage, which was left alone
C30_Witness ==
    /\ Len(recoveryLog) = 1
    /\ recoveryLog[1].answer = "yes"
    /\ Len(recoveryLog[1].calls) = 1
    /\ storage.kind = "snapshot"
    /\ storage.timestamp > recoveryLog[1].at
    /\ ~effectPending

(***************************************************************************)
(* App, Editor, Toolbar and useFileOps: the document, its file and the     *)
(* dirty flag.  A handler runs to its next await in one step, its state    *)
(* updates batched, and the render that follows runs Editor's sync effect; *)
(* while an operation waits for the disk the user can go on typing, and    *)
(* while it is loading the buttons of Toolbar are disabled.                *)
(***************************************************************************)
\* how many rendering containers exportPDF may leave behind
MaxContainers == 2

\* <p>hello</p>
Line == Element("p", "", "", Word, 17, Px(16), Px(16))
\* <p>&nbsp;</p>, useFileOps.ts line 75
Nbsp == Element("p", "", "", <<TextNode("&nbsp;", 17)>>, 17, Px(16), Px(16))
\* useFileOps.ts line 70
Placeholder ==
    Element("p", "", "", <<TextNode("Document opened (appears to be empty)", 17)>>,
            17, Px(16), Px(16))

\* the documents the user's typing leaves in the editor
EditorModels == {<<>>, <<Empty>>, <<Line>>, <<Line, Line>>}

\* editor.setData(html), part_000 lines 210 and 218: the document becomes the
\* blocks of html
setData(html) == html

\* editor.getData(), part_002 line 151: a document that is one empty
\* paragraph is returned as ""
getData(model) == IF model = <<Empty>> THEN <<>> ELSE model

\* a replaced document fires change:data, unless an empty one stays empty
Fires(old, new) == old # <<>> \/ new # <<>>

\* a file path as its name and its extensions
Path(parts) == [kind |-> "path", parts |-> parts]

\* filePath.split('.').pop(), useFileOps.ts line 51
Extension(path) == path.parts[Len(path.parts)]

\* useFileOps.ts lines 114-116 and 198-201: the extension is added if missing
WithExtension(path, ext) ==
    IF Extension(path) = ext THEN path ELSE Path(Append(path.parts, ext))

\* what the dialogs return when the user chooses a file
OpenChoices ==
    {Path(<<"report", ".docx">>), Path(<<"notes", ".txt">>),
     Path(<<"readme", ".md">>)}

SaveChoices == {Path(<<"report">>), Path(<<"report", ".docx">>)}

ExportChoices == {Path(<<"report">>)}

\* the text of a file, split at its line ends: an empty file, or one word
FileTexts == {<<"">>, <<"hello">>}

\* useFileOps.ts lines 54-79: the HTML made of a file's text by its extension
Convert(path, lines) ==
    IF Extension(path) = ".docx"
    THEN LET value == IF lines = <<"">> THEN <<>> ELSE <<Line>>
         IN  IF value = <<>> THEN <<Placeholder>> ELSE value
    ELSE IF Extension(path) = ".txt"
    THEN [i \in DOMAIN lines |-> IF lines[i] = "" THEN Nbsp ELSE Line]
    ELSE IF lines = <<"">> THEN <<Empty>> ELSE <<Line>>

\* what an await can throw: an Error with a message or with an empty one, or
\* a value that is no Error
Thrown ==
    {[isError |-> TRUE, message |-> <<"disk full">>],
     [isError |-> TRUE, message |-> <<>>],
     [isError |-> FALSE, message |-> <<>>]}

\* the steps of exportPDF after the container is appended that can throw
ExportSteps == {"html2canvas", "jsPDF", "writeFile"}

CaughtSilently(thrown, fallback) == None

\* useFileOps.ts lines 83-85, 127-129, 169-171, 290-293: the error the catch
\* block sets
Caught(thrown, fallback) ==
    IF thrown.isError THEN Message(thrown.message) ELSE Message(<<fallback>>)

\* an operation of useFileOps in flight and the await it is at
Op(name, await, text, path) ==
    [kind |-> "op", name |-> name, await |-> await, content |-> text,
     path |-> path]

\* how an operation ended and the callbacks Toolbar called with its result
Settled(name, outcome, calls) ==
    [kind |-> "settled", name |-> name, outcome |-> outcome, calls |-> calls]

\* App pushes c into the editor (part_000 lines 209-211, 217-219) and the
\* editor's onChange runs (part_002 lines 149-156): the document, its data
\* and whether onContentChange was called with it
SetDataByApp(c) ==
    LET model == setData(c)
        data == getData(model)
    IN  [model |-> model, data |-> data,
         reported |-> Fires(editorModel, model) /\ data # lastContent]

\* part_002 lines 68-76: the sync effect of the render with content c, the
\* editor holding model and lastContent.current being last
SyncEffect(model, c, last) ==
    IF c # last THEN [model |-> setData(c), last |-> c]
    ELSE [model |-> model, last |-> last]

InitFiles == InitWith(<<>>) /\ OthersIdle

\* Toolbar.tsx lines 317-334: the buttons are disabled while isLoading
ButtonsEnabled == ~fileLoading /\ fileOp = None

\* the user types: CKEditor fires change:data, Editor's onChange runs
\* (part_002 lines 149-156) and with it handleContentChange (part_000 lines
\* 188-192)
UserEdit ==
    /\ IF fileOp = None THEN TRUE ELSE fileOp.await = "io"
    /\ \E m \in EditorModels :
           /\ m # editorModel
           /\ editorModel' = m
           /\ IF getData(m) # lastContent
              THEN /\ lastContent' = getData(m)
                   /\ appContent' = getData(m)
                   /\ isDirty' = TRUE
              ELSE UNCHANGED <<lastContent, appContent, isDirty>>
    /\ fresh' = "no"
    /\ UNCHANGED <<pagedVars, measureHTML, measured, pdfVars, aiVars, useAIVars,
                   autosaveVars, currentFilePath, fileLoading, fileError,
                   fileOp, bodyContainers, lastSettled, onFile>>

\* part_000 lines 194-212: the New button; the user is asked if the document
\* is dirty
handleNewDocument ==
    /\ ButtonsEnabled
    /\ \E ok \in BOOLEAN :
           /\ isDirty \/ ok
           /\ IF ~ok
              THEN UNCHANGED fileVars
              ELSE LET r == SetDataByApp(<<>>)
                       c == IF r.reported THEN r.data ELSE <<>>
                       last == IF r.reported THEN r.data ELSE lastContent
                       s == SyncEffect(r.model, c, last)
                   IN  /\ appContent' = c
                       /\ currentFilePath' = None
                       /\ isDirty' = r.reported
                       /\ editorModel' = s.model
                       /\ lastContent' = s.last
                       /\ onFile' = <<>>
                       /\ fresh' = "new"
                       /\ UNCHANGED <<fileLoading, fileError, fileOp,
                                      bodyContainers, lastSettled>>
    /\ UNCHANGED <<pagedVars, measureHTML, measured, pdfVars, aiVars, useAIVars,
                   autosaveVars>>

\* an operation of useFileOps starts: lines 28-29, 95-96, 139-140, 180-181
Starts(op) ==
    /\ fileLoading' = TRUE
    /\ fileError' = None
    /\ fileOp' = op
    /\ UNCHANGED <<pagedVars, measureHTML, measured, pdfVars, aiVars, useAIVars,
                   autosaveVars, appContent, currentFilePath, isDirty,
                   editorModel, lastContent, bodyContainers, lastSettled,
                   onFile, fresh>>

\* an operation returns without a result: the dialog was cancelled (lines
\* 40-43, 109-112, 151-154, 191-194), or an await threw and the catch and
\* finally blocks ran; Toolbar calls nothing (Toolbar.tsx lines 26, 35, 43)
ReturnsNull(outcome, err) ==
    /\ fileLoading' = FALSE
    /\ fileError' = err
    /\ fileOp' = None
    /\ lastSettled' = Settled(fileOp.name, outcome, <<>>)
    /\ UNCHANGED <<pagedVars, measureHTML, measured, pdfVars, aiVars, useAIVars,
                   autosaveVars, appContent, currentFilePath, isDirty,
                   editorModel, lastContent, onFile, fresh>>

\* Toolbar.tsx line 25, useFileOps.ts lines 26-38: the Open button
handleOpen ==
    /\ ButtonsEnabled
    /\ Starts(Op("open", "dialog", <<>>, None))

\* useFileOps.ts lines 31-43: the open dialog closes
OpenDialog ==
    /\ fileOp # None
    /\ fileOp.name = "open"
    /\ fileOp.await = "dialog"
    /\ \/ ReturnsNull("cancelled", fileError) /\ UNCHANGED bodyContainers
       \/ /\ \E choice \in OpenChoices :
                 fileOp' = [fileOp EXCEPT !.await = "io", !.path = choice]
          /\ UNCHANGED <<pagedVars, measureHTML, measured, pdfVars, aiVars,
                         useAIVars, autosaveVars, appContent, currentFilePath,
                         isDirty, editorModel, lastContent, fileLoading,
                         fileError, bodyContainers, lastSettled, onFile, fresh>>

\* useFileOps.ts lines 48-89 and Toolbar.tsx lines 26-29: the file is read
\* and converted, or an await throws; with a result handleOpen calls
\* onContentLoaded (part_000 lines 214-221) and onFileSaved (lines 223-227)
OpenReads ==
    /\ fileOp # None
    /\ fileOp.name = "open"
    /\ fileOp.await = "io"
    /\ \/ \E t \in Thrown :
              /\ ReturnsNull("threw", Caught(t, "Failed to open file"))
              /\ UNCHANGED bodyContainers
       \/ \E lines \in FileTexts :
              LET loaded == Convert(fileOp.path, lines)
                  r == SetDataByApp(loaded)
                  c == IF r.reported THEN r.data ELSE loaded
                  last == IF r.reported THEN r.data ELSE lastContent
                  s == SyncEffect(r.model, c, last)
              IN  /\ appContent' = c
                  /\ currentFilePath' = fileOp.path
                  /\ isDirty' = FALSE
                  /\ editorModel' = s.model
                  /\ lastContent' = s.last
                  /\ fileLoading' = FALSE
                  /\ fileOp' = None
                  /\ lastSettled' = Settled("open", "returned",
                                            <<"onContentLoaded", "onFileSaved">>)
                  /\ onFile' = loaded
                  /\ fresh' = "open"
                  /\ UNCHANGED <<pagedVars, measureHTML, measured, pdfVars,
                                 aiVars, useAIVars, autosaveVars, fileError,
                                 bodyContainers>>

\* Toolbar.tsx lines 32-34, useFileOps.ts lines 93-107: the Save button; the
\* content is captured, and the dialog shown if the document has no path
handleSave ==
    /\ ButtonsEnabled
    /\ Starts(IF currentFilePath = None
              THEN Op("save", "dialog", getData(editorModel), None)
              ELSE Op("save", "io", getData(editorModel),
                      WithExtension(currentFilePath, ".docx")))

\* Toolbar.tsx lines 40-42, useFileOps.ts lines 137-149: the Save As button
handleSaveAs ==
    /\ ButtonsEnabled
    /\ Starts(Op("saveAs", "dialog", getData(editorModel), None))

\* useFileOps.ts lines 101-116 and 143-158: the save dialog closes
SaveDialog ==
    /\ fileOp # None
    /\ fileOp.name \in {"save", "saveAs"}
    /\ fileOp.await = "dialog"
    /\ \/ ReturnsNull("cancelled", fileError) /\ UNCHANGED bodyContainers
       \/ /\ \E choice \in SaveChoices :
                 fileOp' = [fileOp EXCEPT !.await = "io",
                                          !.path = WithExtension(choice, ".docx")]
          /\ UNCHANGED <<pagedVars, measureHTML, measured, pdfVars, aiVars,
                         useAIVars, autosaveVars, appContent, currentFilePath,
                         isDirty, editorModel, lastContent, fileLoading,
                         fileError, bodyContainers, lastSettled, onFile, fresh>>

\* useFileOps.ts lines 120-133 and 161-175, Toolbar.tsx lines 35-37 and
\* 43-45: the captured content is converted and written, or an await throws;
\* with a path Toolbar calls onFileSaved (part_000 lines 223-227)
SaveWrites ==
    /\ fileOp # None
    /\ fileOp.name \in {"save", "saveAs"}
    /\ fileOp.await = "io"
    /\ \/ \E t \in Thrown :
              /\ ReturnsNull("threw", Caught(t, "Failed to save file"))
              /\ UNCHANGED bodyContainers
       \/ /\ currentFilePath' = fileOp.path
          /\ isDirty' = FALSE
          /\ fileLoading' = FALSE
          /\ fileOp' = None
          /\ lastSettled' = Settled(fileOp.name, "returned", <<"onFileSaved">>)
          /\ onFile' = fileOp.content
          /\ fresh' = "no"
          /\ UNCHANGED <<pagedVars, measureHTML, measured, pdfVars, aiVars,
                         useAIVars, autosaveVars, appContent, editorModel,
                         lastContent, fileError, bodyContainers>>

\* Toolbar.tsx lines 48-51, useFileOps.ts lines 178-189: the Export button
handleExportPDF ==
    /\ ButtonsEnabled
    /\ Starts(Op("exportPDF", "dialog", getData(editorModel), None))

\* useFileOps.ts lines 184-214: the dialog closes; with a path the container
\* is made and appended to document.body
ExportDialog ==
    /\ fileOp # None
    /\ fileOp.name = "exportPDF"
    /\ fileOp.await = "dialog"
    /\ \/ ReturnsNull("cancelled", fileError) /\ UNCHANGED bodyContainers
       \/ /\ bodyContainers < MaxContainers
          /\ \E choice \in ExportChoices :
                 fileOp' = [fileOp EXCEPT !.await = "io",
                                          !.path = WithExtension(choice, ".pdf")]
          /\ bodyContainers' = bodyContainers + 1
          /\ UNCHANGED <<pagedVars, measureHTML, measured, pdfVars, aiVars,
                         useAIVars, autosaveVars, appContent, currentFilePath,
                         isDirty, editorModel, lastContent, fileLoading,
                         fileError, lastSettled, onFile, fresh>>

\* useFileOps.ts lines 232-296: the container is captured, the PDF made and
\* written and the container removed (line 286), or one of the steps throws
\* and the catch and finally blocks run
ExportSettles ==
    /\ fileOp # None
    /\ fileOp.name = "exportPDF"
    /\ fileOp.await = "io"
    /\ \/ \E step \in ExportSteps, t \in Thrown :
              /\ ReturnsNull("threw", Caught(t, "Failed to export PDF"))
              /\ UNCHANGED bodyContainers
       \/ /\ bodyContainers' = bodyContainers - 1
          /\ fileLoading' = FALSE
          /\ fileOp' = None
          /\ lastSettled' = Settled("exportPDF", "returned", <<>>)
          /\ UNCHANGED <<pagedVars, measureHTML, measured, pdfVars, aiVars,
                         useAIVars, autosaveVars, appContent, currentFilePath,
                         isDirty, editorModel, lastContent, fileError, onFile,
                         fresh>>

\* useFileOps.ts line 23, Toolbar.tsx lines 209-211: the error banner, shown
\* for an error that is not empty, is clicked
clearError ==
    /\ fileError # None
    /\ fileError.parts # <<>>
    /\ fileError' = None
    /\ UNCHANGED <<pagedVars, measureHTML, measured, pdfVars, aiVars, useAIVars,
                   autosaveVars, appContent, currentFilePath, isDirty,
                   editorModel, lastContent, fileLoading, fileOp,
                   bodyContainers, lastSettled, onFile, fresh>>

NextFiles ==
    \/ UserEdit
    \/ handleNewDocument
    \/ handleOpen
    \/ OpenDialog
    \/ OpenReads
    \/ handleSave
    \/ handleSaveAs
    \/ SaveDialog
    \/ SaveWrites
    \/ handleExportPDF
    \/ ExportDialog
    \/ ExportSettles
    \/ clearError

SpecFiles == InitFiles /\ [][NextFiles]_vars

(***************************************************************************)
(* The claims on the file operations.                                      *)
(***************************************************************************)
\* C28: when exportPDF has settled, succeeded or failed, its rendering
\* container is no child of document.body any more
C28_ContainerDetached == fileOp = None => bodyContainers = 0

\* C24: whenever isDirty is false, the editor's content is the content last
\* written to or loaded from a file, or the empty new document, as the editor
\* returns it
C24_CleanMeansOnFile ==
    isDirty = FALSE => getData(editorModel) = getData(setData(onFile))

\* C25: after a New or an Open has completed, and until the user edits,
\* isDirty is false; after a New, content is empty and currentFilePath null
C25_FreshIsClean ==
    /\ fresh # "no" => isDirty = FALSE
    /\ fresh = "new" => appContent = <<>> /\ currentFilePath = None

\* C21: the step that settles a file operation leaves isLoading false and
\* error non-null exactly if an await threw; then Toolbar called no callback
\* and content, currentFilePath and isDirty are as before; a cancelled dialog
\* leaves error null; and a click on the banner leaves error null
C21_ErrorsSurfaced ==
    [][/\ (fileOp # None /\ fileOp' = None) =>
              /\ fileLoading' = FALSE
              /\ fileError' # None <=> lastSettled'.outcome = "threw"
              /\ lastSettled'.outcome = "threw" =>
                     /\ lastSettled'.calls = <<>>
                     /\ UNCHANGED <<appContent, currentFilePath, isDirty>>
              /\ lastSettled'.outcome = "cancelled" => fileError' = None
       /\ (fileOp' = fileOp /\ fileError' # fileError) => fileError' = None
      ]_vars

\* an operation has thrown: the error is set, nothing is loading
C21_Witness ==
    /\ fileOp = None
    /\ lastSettled # None
    /\ lastSettled.outcome = "threw"
    /\ fileError # None
    /\ ~fileLoading
    /\ isDirty

====
